---- MODULE Spec2Model ----
(***************************************************************************)
(* Model of the real-time conversation / messaging core of omnibot-hub-api *)
(* (messages.service, conversations.service, config/socket, the webhook    *)
(* routes).  The store is the PostgreSQL schema of the repository; every   *)
(* awaited db.query of a handler is one step of the request that runs it.  *)
(***************************************************************************)
EXTENDS Integers, Sequences, FiniteSets, TLC

\* ---------------------------------------------------------------- bounds
MaxConvs == 2
MaxMsgs == 2
MaxPerPage == 2
MaxHubMsgs == 1
MaxHubConvs == 1

\* ------------------------------------------------------- program constants
PreviewLen == 100

Null == "null"

\* ----------------------------------------------------------- static tables
Tenants == {"T1", "T2"}

\* userId of a request principal; "u0" is a user without a row in users
Users == {"u1", "u2", "u0"}

UsersTable == [u \in {"u1", "u2"} |-> IF u = "u1" THEN "T1" ELSE "T2"]

getTenantId(userId) ==
    IF userId \in DOMAIN UsersTable THEN UsersTable[userId] ELSE Null

senderTypes == {"customer", "agent", "system", "bot"}

channelTypes == {"whatsapp", "telegram"}

\* customer references (contatos.id / the external id of a webhook sender)
Customers == {"cA"}

Agents == {"a1"}

Short == <<"O", "i">>

Long == [i \in 1..(PreviewLen + 1) |-> "x"]

Contents == {Short, Long}

Min(a, b) == IF a < b THEN a ELSE b

\* String.prototype.substring(0, n)
substring(s, n) == SubSeq(s, 1, Min(Len(s), n))

\* ------------------------------------------------- sender type conversion
senderTypePtToEn ==
    [cliente |-> "customer", agente |-> "agent", sistema |-> "system",
     bot |-> "bot", customer |-> "customer", agent |-> "agent",
     system |-> "system"]

senderTypeEnToPt ==
    [customer |-> "cliente", agent |-> "agente", system |-> "sistema",
     bot |-> "bot"]

\* the stored value handed back without the conversion
mapSenderTypeToEnRaw(type) ==
    IF type # Null /\ type # "" THEN type ELSE "system"

mapSenderTypeToEn(type) ==
    IF type \in DOMAIN senderTypePtToEn THEN senderTypePtToEn[type]
    ELSE IF type # Null /\ type # "" THEN type ELSE "system"

mapSenderTypeToPt(type) ==
    IF type \in DOMAIN senderTypeEnToPt THEN senderTypeEnToPt[type]
    ELSE IF type # Null /\ type # "" THEN type ELSE "sistema"

\* a || b of JavaScript on a string/sequence value
OrElse(a, b) == IF a = Null \/ a = <<>> \/ a = "" THEN b ELSE a

mapMessageToResponse(msg) ==
    [id |-> msg.id,
     tenant_id |-> msg.tenant_id,
     conversation_id |-> msg.conversa_id,
     sender_type |-> mapSenderTypeToEn(msg.remetente_tipo),
     content |-> OrElse(msg.conteudo, Null),
     read |-> msg.lida]

\* ------------------------------------------------------------------ state
VARIABLES
    conversas,   \* table conversas: sequence of rows, row i has id i
    mensagens,   \* table mensagens: sequence of rows in insertion order
    customers,   \* table customers of the n8n message webhook
    secret,      \* env.WEBHOOK_SECRET, Null when not configured
    procs,       \* requests in flight: one record per request slot
    sockets,     \* per connection: the authenticated principal, or Closed
    rooms,       \* per connection: the rooms it is a member of
    pendingJoin, \* conversation:join handlers waiting for their query
    emitted,     \* the events emitted by the last step, with their recipients
    last         \* the operation that completed last, with its result

vars == <<conversas, mensagens, customers, secret, procs, sockets, rooms,
          pendingJoin, emitted, last>>

store == <<conversas, mensagens, customers, secret>>

hub == <<sockets, rooms, pendingJoin>>

Procs == {"p1", "p2"}

NoRow == [id |-> 0]

IdleProc ==
    [op |-> "idle", pc |-> "idle", userId |-> Null, tenantId |-> Null,
     conv |-> 0, senderType |-> Null, content |-> <<>>, row |-> NoRow,
     steps |-> <<>>, canal |-> Null, cliente |-> Null, sig |-> Null]

NoOp == [op |-> "none"]

ConvIds == 1..Len(conversas)

MsgIds == 1..Len(mensagens)

\* the ownership query without its tenant_id condition
convCheckAnyTenant(conversationId, tenantId) ==
    {c \in ConvIds : c = conversationId}

\* SELECT id FROM conversas WHERE id = $1 AND tenant_id = $2
convCheck(conversationId, tenantId) ==
    {c \in ConvIds : c = conversationId /\ conversas[c].tenant_id = tenantId}

\* LIMIT n OFFSET k
LimitOffset(rows, n, k) == SubSeq(rows, k + 1, Min(Len(rows), k + n))

Range(f) == {f[i] : i \in DOMAIN f}

\* remetente_tipo IN ('cliente', 'customer')
IsCustomerRow(m) == m.remetente_tipo \in {"cliente", "customer"}

\* every message left to the column default of lida
initialLidaDefault(senderType) == FALSE

\* the read flag an append computes from the sender type it was given
initialLida(senderType) == IF senderType = "customer" THEN FALSE ELSE TRUE

\* INSERT INTO mensagens (...) VALUES (...) RETURNING *
NewMessageRow(msgs, tenantId, conversationId, remetenteTipo, conteudo, lida) ==
    [id |-> Len(msgs) + 1,
     tenant_id |-> tenantId,
     conversa_id |-> conversationId,
     remetente_tipo |-> remetenteTipo,
     conteudo |-> conteudo,
     lida |-> lida]

\* UPDATE conversas SET ultima_mensagem = $1, ... WHERE id = $2
TouchLastMessage(convs, conversationId, preview) ==
    [c \in DOMAIN convs |->
        IF convs[c].id = conversationId
        THEN [convs[c] EXCEPT !.ultima_mensagem = preview]
        ELSE convs[c]]

\* ------------------------------------------------------------ Realtime Hub
Sockets == {"s1", "s2"}

Closed == [userId |-> Null, tenantId |-> Null]

TenantRoom(tenantId) == [kind |-> "tenant", tenant |-> tenantId, conv |-> 0]

ConversationRoom(conversationId) ==
    [kind |-> "conversation", tenant |-> Null, conv |-> conversationId]

Members(room) == {s \in Sockets : room \in rooms[s]}

\* io.to(room).emit(ev, payload): delivered to the members of the room
IoEmit(room, ev, payload) ==
    [ev |-> ev, room |-> room, payload |-> payload, from |-> Null,
     to |-> Members(room)]

\* socket.to(room).emit(ev, payload): the members of the room but the sender
SocketEmit(s, room, ev, payload) ==
    [ev |-> ev, room |-> room, payload |-> payload, from |-> s,
     to |-> Members(room) \ {s}]

\* the error sent with io.emit: to every connection
ErrorEventBroadcast(s, message) ==
    [ev |-> "error", room |-> [kind |-> "socket", tenant |-> Null, conv |-> 0],
     payload |-> [message |-> message], from |-> s,
     to |-> {x \in Sockets : sockets[x] # Closed}]

\* socket.emit('error', ...): only the connection itself
ErrorEvent(s, message) ==
    [ev |-> "error", room |-> [kind |-> "socket", tenant |-> Null, conv |-> 0],
     payload |-> [message |-> message], from |-> s, to |-> {s}]

emitNewMessage(tenantId, conversationId, message) ==
    {IoEmit(ConversationRoom(conversationId), "message:new", message),
     IoEmit(TenantRoom(tenantId), "message:new", message)}

\* emitConversationUpdate: exported by the socket module, called by no route
\* and no service
emitConversationUpdate(tenantId, conversation) ==
    {IoEmit(TenantRoom(tenantId), "conversation:updated", conversation)}

\* the events a connection receives in the last step
Inbox(s) == {e \in emitted : s \in e.to}

Init ==
    /\ conversas = <<>>
    /\ mensagens = <<>>
    /\ customers = <<>>
    /\ secret = Null
    /\ procs = [p \in Procs |-> IdleProc]
    /\ sockets = [s \in Sockets |-> Closed]
    /\ rooms = [s \in Sockets |-> {}]
    /\ pendingJoin = {}
    /\ emitted = {}
    /\ last = NoOp

\* token of a handshake: a valid token of a user, an invalid one, or none
Tokens == Users \cup {"invalid", Null}

\* authenticateSocket without its tenant check
authenticateSocketAnyUser(token) ==
    IF token = Null THEN "Authentication required"
    ELSE IF token = "invalid" THEN "Invalid token"
    ELSE "next"

\* authenticateSocket: the error it passes to next(), or "next"
authenticateSocket(token) ==
    IF token = Null THEN "Authentication required"
    ELSE IF token = "invalid" THEN "Invalid token"
    ELSE IF getTenantId(token) = Null THEN "User not found"
    ELSE "next"

\* io.use(authenticateSocket) followed by io.on('connection'): a rejected
\* handshake never runs the connection handler
Connect(s, token) ==
    /\ sockets[s] = Closed
    /\ IF authenticateSocket(token) = "next"
       THEN /\ sockets' = [sockets EXCEPT ![s] =
                   [userId |-> token, tenantId |-> getTenantId(token)]]
            /\ rooms' = [rooms EXCEPT ![s] =
                   IF getTenantId(token) # Null
                   THEN {TenantRoom(getTenantId(token))} ELSE {}]
            /\ emitted' =
                   IF getTenantId(token) # Null
                   THEN {SocketEmit(s, TenantRoom(getTenantId(token)),
                                    "user:online", [userId |-> token])}
                   ELSE {}
            /\ last' = NoOp
       ELSE /\ UNCHANGED <<sockets, rooms>>
            /\ emitted' = {}
            /\ last' = [op |-> "connect", ok |-> FALSE, socket |-> s,
                        error |-> authenticateSocket(token)]
    /\ UNCHANGED <<store, procs, pendingJoin>>

\* socket.on('disconnect'): the connection has left its rooms
Disconnect(s) ==
    /\ sockets[s] # Closed
    /\ emitted' =
          {SocketEmit(s, TenantRoom(sockets[s].tenantId), "user:offline",
                      [userId |-> sockets[s].userId])}
    /\ sockets' = [sockets EXCEPT ![s] = Closed]
    /\ rooms' = [rooms EXCEPT ![s] = {}]
    /\ pendingJoin' = {j \in pendingJoin : j.socket # s}
    /\ last' = NoOp
    /\ UNCHANGED <<store, procs>>

\* socket.on('conversation:join'): the ownership query runs in the store
JoinQuery(s, conversationId, dbOk) ==
    /\ sockets[s] # Closed
    /\ \A j \in pendingJoin : ~(j.socket = s /\ j.conv = conversationId)
    /\ pendingJoin' = pendingJoin \cup
          {[socket |-> s, conv |-> conversationId, ok |-> dbOk,
            left |-> FALSE,
            rows |-> IF dbOk
                     THEN convCheck(conversationId, sockets[s].tenantId)
                     ELSE {}]}
    /\ last' = NoOp
    /\ emitted' = {}
    /\ UNCHANGED <<store, procs, sockets, rooms>>

\* the join handler resumes with the result of its query
JoinResume(j) ==
    /\ j \in pendingJoin
    /\ pendingJoin' = pendingJoin \ {j}
    /\ IF ~j.ok
       THEN /\ emitted' = {ErrorEvent(j.socket, "Failed to join conversation")}
            /\ rooms' = rooms
       ELSE /\ emitted' = {}
            /\ rooms' = IF j.rows # {}
                         THEN [rooms EXCEPT ![j.socket] =
                                 @ \cup {ConversationRoom(j.conv)}]
                         ELSE rooms
    /\ last' = [op |-> "join", ok |-> j.ok, socket |-> j.socket,
                conv |-> j.conv, joined |-> j.ok /\ j.rows # {},
                left |-> j.left]
    /\ UNCHANGED <<store, procs, sockets>>

\* a join whose ownership query is in flight, once a leave of the same
\* conversation by the same connection has been handled
MarkLeft(joins, s, conversationId) ==
    {IF j.socket = s /\ j.conv = conversationId
     THEN [j EXCEPT !.left = TRUE] ELSE j : j \in joins}

\* socket.on('conversation:leave'): synchronous; leaving a room the
\* connection is not in changes no membership
Leave(s, conversationId) ==
    /\ sockets[s] # Closed
    /\ rooms' = [rooms EXCEPT ![s] = @ \ {ConversationRoom(conversationId)}]
    /\ pendingJoin' = MarkLeft(pendingJoin, s, conversationId)
    /\ last' = NoOp
    /\ emitted' = {}
    /\ UNCHANGED <<store, procs, sockets>>

\* socket.on('typing:start') / socket.on('typing:stop'): relayed to the others
\* in the room; a failed name lookup of typing:start is ignored
Typing(s, conversationId, ev, dbOk) ==
    /\ sockets[s] # Closed
    /\ emitted' =
          IF ev = "typing:start" /\ ~dbOk THEN {}
          ELSE {SocketEmit(s, ConversationRoom(conversationId), ev,
                           [conversationId |-> conversationId,
                            userId |-> sockets[s].userId])}
    /\ last' = NoOp
    /\ UNCHANGED <<store, procs, hub>>

\* ====================================================== MessagesService
\* the rows listByConversation selects, before LIMIT/OFFSET
listRows(msgs, conversationId, tenantId, before, after) ==
    SelectSeq(msgs, LAMBDA m :
        /\ m.conversa_id = conversationId
        /\ m.tenant_id = tenantId
        /\ (before = Null \/ m.id < before)
        /\ (after = Null \/ m.id > after))

MapSeq(rows) == [i \in DOMAIN rows |-> mapMessageToResponse(rows[i])]

\* MessagesService.listByConversation; created_at is the insertion order
listByConversation(userId, conversationId, page, perPage, before, after) ==
    LET tenantId == getTenantId(userId)
        rows == listRows(mensagens, conversationId, tenantId, before, after)
    IN  IF tenantId = Null
        THEN [error |-> Null, messages |-> <<>>, total |-> 0]
        ELSE IF convCheck(conversationId, tenantId) = {}
        THEN [error |-> "NOT_FOUND:Conversation", messages |-> <<>>,
              total |-> 0]
        ELSE [error |-> Null,
              messages |-> MapSeq(LimitOffset(rows, perPage,
                                              (page - 1) * perPage)),
              total |-> Len(rows)]

\* MessagesService.getById
messageGetById(id, userId) ==
    LET tenantId == getTenantId(userId)
        rows == SelectSeq(mensagens, LAMBDA m :
                    m.id = id /\ m.tenant_id = tenantId)
    IN  IF tenantId = Null \/ Len(rows) = 0
        THEN [error |-> "NOT_FOUND:Message", messages |-> <<>>]
        ELSE [error |-> Null, messages |-> <<mapMessageToResponse(rows[1])>>]

\* MessagesService.getUnreadCount
getUnreadCount(userId, conversationId) ==
    LET tenantId == getTenantId(userId)
    IN  IF tenantId = Null THEN 0
        ELSE Len(SelectSeq(mensagens, LAMBDA m :
                 /\ m.conversa_id = conversationId
                 /\ m.tenant_id = tenantId
                 /\ m.lida = FALSE
                 /\ IsCustomerRow(m)))

\* the named UPDATE without its lida = false condition
markNamedRowsAny(msgs, conversationId, tenantId, messageIds) ==
    {i \in DOMAIN msgs :
        /\ msgs[i].conversa_id = conversationId
        /\ msgs[i].tenant_id = tenantId
        /\ msgs[i].id \in messageIds}

\* the named UPDATE without its tenant_id condition
markNamedRowsAnyTenant(msgs, conversationId, tenantId, messageIds) ==
    {i \in DOMAIN msgs :
        /\ msgs[i].conversa_id = conversationId
        /\ msgs[i].id \in messageIds
        /\ msgs[i].lida = FALSE}

\* UPDATE mensagens SET lida = true WHERE conversa_id = $1 AND tenant_id = $2
\*   AND id = ANY($3) AND lida = false RETURNING id
markNamedRows(msgs, conversationId, tenantId, messageIds) ==
    {i \in DOMAIN msgs :
        /\ msgs[i].conversa_id = conversationId
        /\ msgs[i].tenant_id = tenantId
        /\ msgs[i].id \in messageIds
        /\ msgs[i].lida = FALSE}

\* the mark-all UPDATE without its conversa_id condition
markAllRowsAnyConv(msgs, conversationId, tenantId) ==
    {i \in DOMAIN msgs :
        /\ msgs[i].tenant_id = tenantId
        /\ msgs[i].lida = FALSE
        /\ IsCustomerRow(msgs[i])}

\* UPDATE mensagens SET lida = true WHERE conversa_id = $1 AND tenant_id = $2
\*   AND lida = false AND remetente_tipo IN ('cliente', 'customer') RETURNING id
markAllRows(msgs, conversationId, tenantId) ==
    {i \in DOMAIN msgs :
        /\ msgs[i].conversa_id = conversationId
        /\ msgs[i].tenant_id = tenantId
        /\ msgs[i].lida = FALSE
        /\ IsCustomerRow(msgs[i])}

markAsReadRows(msgs, conversationId, tenantId, messageIds) ==
    IF messageIds # {}
    THEN markNamedRows(msgs, conversationId, tenantId, messageIds)
    ELSE markAllRows(msgs, conversationId, tenantId)

\* the UPDATE writing the opposite of the stored flag
SetLidaFlip(msgs, ids) ==
    [i \in DOMAIN msgs |->
        IF i \in ids THEN [msgs[i] EXCEPT !.lida = ~@] ELSE msgs[i]]

SetLida(msgs, ids) ==
    [i \in DOMAIN msgs |->
        IF i \in ids THEN [msgs[i] EXCEPT !.lida = TRUE] ELSE msgs[i]]

\* MessagesService.markAsRead: one UPDATE ... RETURNING after getTenantId
MarkAsRead(userId, conversationId, messageIds, dbOk) ==
    LET tenantId == getTenantId(userId)
        hit == markAsReadRows(mensagens, conversationId, tenantId, messageIds)
    IN  /\ IF tenantId = Null
           THEN /\ last' = [op |-> "markAsRead", ok |-> FALSE,
                            error |-> "NOT_FOUND:User"]
                /\ mensagens' = mensagens
           ELSE IF ~dbOk
           THEN /\ last' = [op |-> "markAsRead", ok |-> FALSE,
                            error |-> "DB_ERROR"]
                /\ mensagens' = mensagens
           ELSE /\ mensagens' = SetLida(mensagens, hit)
                /\ last' = [op |-> "markAsRead", ok |-> TRUE, error |-> Null,
                            named |-> messageIds # {},
                            asked |-> Cardinality(messageIds),
                            count |-> Cardinality(hit)]
        /\ emitted' = {}
        /\ UNCHANGED <<conversas, customers, secret, procs, hub>>

\* MessagesService.markAsRead when its UPDATE fails with code 42P01
\* (undefined table): the catch returns 0; every other error is rethrown,
\* which is MarkAsRead with dbOk = FALSE
MarkAsReadUndefinedTable(userId, conversationId, messageIds) ==
    /\ getTenantId(userId) # Null
    /\ last' = [op |-> "markAsRead", ok |-> TRUE, error |-> Null,
                named |-> messageIds # {},
                asked |-> Cardinality(messageIds),
                count |-> 0]
    /\ emitted' = {}
    /\ UNCHANGED <<store, procs, hub>>

\* MessagesService.create without the ownership check of the conversation
CreateCheckNoOwnership(p, userId, conversationId, senderType, content) ==
    LET tenantId == getTenantId(userId)
    IN  /\ procs[p].op = "idle"
        /\ IF tenantId = Null
           THEN /\ last' = [op |-> "create", ok |-> FALSE,
                            error |-> "NOT_FOUND:User"]
                /\ procs' = procs
           ELSE /\ last' = NoOp
                /\ procs' = [procs EXCEPT ![p] =
                      [IdleProc EXCEPT !.op = "create", !.pc = "insert",
                          !.userId = userId, !.tenantId = tenantId,
                          !.conv = conversationId, !.senderType = senderType,
                          !.content = content]]
        /\ emitted' = {}
        /\ UNCHANGED <<store, hub>>

\* MessagesService.create, up to its INSERT: getTenantId and the ownership
\* check of the conversation
CreateCheck(p, userId, conversationId, senderType, content) ==
    LET tenantId == getTenantId(userId)
    IN  /\ procs[p].op = "idle"
        /\ IF tenantId = Null
           THEN /\ last' = [op |-> "create", ok |-> FALSE,
                            error |-> "NOT_FOUND:User"]
                /\ procs' = procs
           ELSE IF convCheck(conversationId, tenantId) = {}
           THEN /\ last' = [op |-> "create", ok |-> FALSE,
                            error |-> "NOT_FOUND:Conversation"]
                /\ procs' = procs
           ELSE /\ last' = NoOp
                /\ procs' = [procs EXCEPT ![p] =
                      [IdleProc EXCEPT !.op = "create", !.pc = "insert",
                          !.userId = userId, !.tenantId = tenantId,
                          !.conv = conversationId, !.senderType = senderType,
                          !.content = content]]
        /\ emitted' = {}
        /\ UNCHANGED <<store, hub>>

\* the append going on to the preview and the broadcast with a row the
\* store never took
CreateInsertUnstored(p, dbOk) ==
    LET pr == procs[p]
        row == NewMessageRow(mensagens, pr.tenantId, pr.conv,
                             mapSenderTypeToPt(pr.senderType), pr.content,
                             initialLida(pr.senderType))
    IN  /\ pr.op = "create"
        /\ pr.pc = "insert"
        /\ mensagens' = mensagens
        /\ procs' = [procs EXCEPT ![p].pc = "preview", ![p].row = row,
                                  ![p].steps = Append(@, "persist")]
        /\ last' = NoOp
        /\ emitted' = {}
        /\ UNCHANGED <<conversas, customers, secret, hub>>

\* MessagesService.create: INSERT INTO mensagens ... RETURNING *
CreateInsert(p, dbOk) ==
    LET pr == procs[p]
        row == NewMessageRow(mensagens, pr.tenantId, pr.conv,
                             mapSenderTypeToPt(pr.senderType), pr.content,
                             initialLida(pr.senderType))
    IN  /\ pr.op = "create"
        /\ pr.pc = "insert"
        /\ IF dbOk
           THEN /\ mensagens' = Append(mensagens, row)
                /\ procs' = [procs EXCEPT ![p].pc = "preview", ![p].row = row,
                                          ![p].steps = Append(@, "persist")]
                /\ last' = NoOp
           ELSE /\ mensagens' = mensagens
                /\ procs' = [procs EXCEPT ![p] = IdleProc]
                /\ last' = [op |-> "create", ok |-> FALSE,
                            error |-> "DB_ERROR"]
        /\ emitted' = {}
        /\ UNCHANGED <<conversas, customers, secret, hub>>

\* ConversationsService.updateLastMessage, called by create: errors swallowed
CreatePreview(p, dbOk) ==
    LET pr == procs[p]
    IN  /\ pr.op = "create"
        /\ pr.pc = "preview"
        /\ conversas' = IF dbOk
                        THEN TouchLastMessage(conversas, pr.conv,
                                 substring(pr.content, PreviewLen))
                        ELSE conversas
        /\ procs' = [procs EXCEPT ![p].pc = "emit",
                                  ![p].steps = Append(@, "preview")]
        /\ last' = NoOp
        /\ emitted' = {}
        /\ UNCHANGED <<mensagens, customers, secret, hub>>

\* MessagesService.create: mapMessageToResponse, emitNewMessage, return
CreateEmit(p) ==
    LET pr == procs[p]
        messageResponse == mapMessageToResponse(pr.row)
    IN  /\ pr.op = "create"
        /\ pr.pc = "emit"
        /\ emitted' = emitNewMessage(pr.tenantId, pr.conv, messageResponse)
        /\ last' = [op |-> "create", ok |-> TRUE, error |-> Null,
                    userId |-> pr.userId, conv |-> pr.conv,
                    senderType |-> pr.senderType, content |-> pr.content,
                    result |-> messageResponse,
                    steps |-> Append(pr.steps, "broadcast")]
        /\ procs' = [procs EXCEPT ![p] = IdleProc]
        /\ UNCHANGED <<store, hub>>

\* MessagesService.createByTenantId: its INSERT is the first statement; a
\* conversation id without a row violates the foreign key of conversa_id
CbtInsert(p, tenantId, conversationId, senderType, content, dbOk) ==
    LET row == NewMessageRow(mensagens, tenantId, conversationId,
                             mapSenderTypeToPt(senderType), content,
                             initialLida(senderType))
    IN  /\ procs[p].op = "idle"
        /\ IF dbOk /\ conversationId \in ConvIds
           THEN /\ mensagens' = Append(mensagens, row)
                /\ procs' = [procs EXCEPT ![p] =
                      [IdleProc EXCEPT !.op = "createByTenantId",
                          !.pc = "preview", !.tenantId = tenantId,
                          !.conv = conversationId, !.senderType = senderType,
                          !.content = content, !.row = row,
                          !.steps = <<"persist">>]]
                /\ last' = NoOp
           ELSE /\ mensagens' = mensagens
                /\ procs' = procs
                /\ last' = [op |-> "createByTenantId", ok |-> FALSE,
                            error |-> Null]
        /\ emitted' = {}
        /\ UNCHANGED <<conversas, customers, secret, hub>>

\* createByTenantId: UPDATE conversas SET ultima_mensagem ...; an error of
\* this statement reaches the catch of the method, which returns null
CbtPreview(p, dbOk) ==
    LET pr == procs[p]
    IN  /\ pr.op = "createByTenantId"
        /\ pr.pc = "preview"
        /\ IF dbOk
           THEN /\ conversas' = TouchLastMessage(conversas, pr.conv,
                                    substring(pr.content, PreviewLen))
                /\ procs' = [procs EXCEPT ![p].pc = "emit",
                                          ![p].steps = Append(@, "preview")]
                /\ last' = NoOp
           ELSE /\ conversas' = conversas
                /\ procs' = [procs EXCEPT ![p] = IdleProc]
                /\ last' = [op |-> "createByTenantId", ok |-> FALSE,
                            error |-> Null]
        /\ emitted' = {}
        /\ UNCHANGED <<mensagens, customers, secret, hub>>

\* createByTenantId: mapMessageToResponse, emitNewMessage, return
CbtEmit(p) ==
    LET pr == procs[p]
        messageResponse == mapMessageToResponse(pr.row)
    IN  /\ pr.op = "createByTenantId"
        /\ pr.pc = "emit"
        /\ emitted' = emitNewMessage(pr.tenantId, pr.conv, messageResponse)
        /\ last' = [op |-> "createByTenantId", ok |-> TRUE, error |-> Null,
                    userId |-> Null, conv |-> pr.conv,
                    senderType |-> pr.senderType, content |-> pr.content,
                    result |-> messageResponse,
                    steps |-> Append(pr.steps, "broadcast")]
        /\ procs' = [procs EXCEPT ![p] = IdleProc]
        /\ UNCHANGED <<store, hub>>


\* ================================================== ConversationsService
statusPtToEn ==
    [aberta |-> "open", em_atendimento |-> "in_progress",
     resolvida |-> "resolved", fechada |-> "closed", open |-> "open",
     in_progress |-> "in_progress", resolved |-> "resolved",
     closed |-> "closed"]

statusEnToPt ==
    [open |-> "aberta", in_progress |-> "em_atendimento",
     resolved |-> "resolvida", closed |-> "fechada"]

mapStatusToEn(status) ==
    IF status \in DOMAIN statusPtToEn THEN statusPtToEn[status]
    ELSE IF status # Null /\ status # "" THEN status ELSE "open"

mapStatusToPt(status) ==
    IF status \in DOMAIN statusEnToPt THEN statusEnToPt[status]
    ELSE IF status # Null /\ status # "" THEN status ELSE "aberta"

\* (SELECT COUNT(*) FROM mensagens m WHERE m.conversa_id = c.id
\*    AND m.lida = false AND m.remetente_tipo = 'customer')
unreadSubquery(conversationId) ==
    Len(SelectSeq(mensagens, LAMBDA m :
        /\ m.conversa_id = conversationId
        /\ m.lida = FALSE
        /\ m.remetente_tipo = "customer"))

mapConversationToResponse(conv) ==
    [id |-> conv.id,
     tenant_id |-> conv.tenant_id,
     customer_id |-> conv.cliente_id,
     agent_id |-> conv.agente_id,
     channel |-> conv.canal,
     status |-> mapStatusToEn(conv.status),
     last_message |-> conv.ultima_mensagem,
     unread_count |-> unreadSubquery(conv.id)]

\* ConversationsService.list: the rows of the caller's tenant (the filters,
\* ORDER BY and LIMIT of the query select among these rows)
conversationsList(userId) ==
    LET tenantId == getTenantId(userId)
    IN  IF tenantId = Null THEN {}
        ELSE {mapConversationToResponse(conversas[c]) :
                c \in {d \in ConvIds : conversas[d].tenant_id = tenantId}}

\* ConversationsService.getByTenantId; Null when there is no such row
getByTenantId(tenantId, conversationId) ==
    IF convCheck(conversationId, tenantId) = {} THEN {}
    ELSE {mapConversationToResponse(conversas[conversationId])}

\* ConversationsService.getById
conversationGetById(id, userId) ==
    LET tenantId == getTenantId(userId)
    IN  IF tenantId = Null \/ convCheck(id, tenantId) = {}
        THEN [error |-> "NOT_FOUND:Conversation", rows |-> {}]
        ELSE [error |-> Null,
              rows |-> {mapConversationToResponse(conversas[id])}]

\* UPDATE conversas SET status = $1, ... WHERE id = $2 AND tenant_id = $3
SetStatus(convs, id, tenantId, dbStatus) ==
    [c \in DOMAIN convs |->
        IF convs[c].id = id /\ convs[c].tenant_id = tenantId
        THEN [convs[c] EXCEPT !.status = dbStatus]
        ELSE convs[c]]

\* the assignment as an UPDATE of agente_id alone
SetAgentOnly(convs, id, tenantId, agentId) ==
    [c \in DOMAIN convs |->
        IF convs[c].id = id /\ convs[c].tenant_id = tenantId
        THEN [convs[c] EXCEPT !.agente_id = agentId]
        ELSE convs[c]]

\* UPDATE conversas SET agente_id = $1, status = 'em_atendimento', ...
\*   WHERE id = $2 AND tenant_id = $3
SetAgent(convs, id, tenantId, agentId) ==
    [c \in DOMAIN convs |->
        IF convs[c].id = id /\ convs[c].tenant_id = tenantId
        THEN [convs[c] EXCEPT !.agente_id = agentId,
                              !.status = "em_atendimento"]
        ELSE convs[c]]

\* ConversationsService.updateStatus (close is updateStatus with 'closed')
UpdateStatus(id, userId, status, dbOk) ==
    LET tenantId == getTenantId(userId)
    IN  /\ IF tenantId = Null
           THEN /\ conversas' = conversas
                /\ last' = [op |-> "updateStatus", ok |-> FALSE,
                            error |-> "NOT_FOUND:User"]
           ELSE IF ~dbOk
           THEN /\ conversas' = conversas
                /\ last' = [op |-> "updateStatus", ok |-> FALSE,
                            error |-> "DB_ERROR"]
           ELSE IF convCheck(id, tenantId) = {}
           THEN /\ conversas' = conversas
                /\ last' = [op |-> "updateStatus", ok |-> FALSE,
                            error |-> "NOT_FOUND:Conversation"]
           ELSE /\ conversas' = SetStatus(conversas, id, tenantId,
                                          mapStatusToPt(status))
                /\ last' = [op |-> "updateStatus", ok |-> TRUE,
                            error |-> Null, userId |-> userId, conv |-> id]
        /\ emitted' = {}
        /\ UNCHANGED <<mensagens, customers, secret, procs, hub>>

\* ConversationsService.assignAgent
AssignAgent(id, userId, agentId, dbOk) ==
    LET tenantId == getTenantId(userId)
    IN  /\ IF tenantId = Null
           THEN /\ conversas' = conversas
                /\ last' = [op |-> "assignAgent", ok |-> FALSE,
                            error |-> "NOT_FOUND:User"]
           ELSE IF ~dbOk
           THEN /\ conversas' = conversas
                /\ last' = [op |-> "assignAgent", ok |-> FALSE,
                            error |-> "DB_ERROR"]
           ELSE IF convCheck(id, tenantId) = {}
           THEN /\ conversas' = conversas
                /\ last' = [op |-> "assignAgent", ok |-> FALSE,
                            error |-> "NOT_FOUND:Conversation"]
           ELSE /\ conversas' = SetAgent(conversas, id, tenantId, agentId)
                /\ last' = [op |-> "assignAgent", ok |-> TRUE,
                            error |-> Null, userId |-> userId, conv |-> id,
                            prior |-> conversas[id].status]
        /\ emitted' = {}
        /\ UNCHANGED <<mensagens, customers, secret, procs, hub>>

\* ===================================================== webhook routes
\* the 'sha256=' prefix and the 64 hex digits of an HMAC-SHA256 digest
HmacLen == 71

ConfiguredSecret == "s3cret"

\* x-webhook-signature / x-webhook-secret of a request: absent, a raw value,
\* or 'sha256=<hex>' whose digest is or is not the HMAC of the body
SigHeaders ==
    {[kind |-> "absent", value |-> Null, len |-> 0],
     [kind |-> "raw", value |-> ConfiguredSecret, len |-> 6],
     [kind |-> "raw", value |-> "wrong", len |-> 5],
     [kind |-> "sha256", value |-> "hmac", len |-> HmacLen],
     [kind |-> "sha256", value |-> "other", len |-> HmacLen],
     [kind |-> "sha256", value |-> "other", len |-> HmacLen - 1]}

\* validateWebhookSignature: "next", a 401, or the RangeError that
\* crypto.timingSafeEqual throws for buffers of different length
validateWebhookSignature(signature, sec) ==
    IF sec = Null THEN "next"
    ELSE IF signature.kind = "absent" THEN "401:Missing webhook signature"
    ELSE IF signature.kind = "raw" /\ signature.value = sec THEN "next"
    ELSE IF signature.kind = "sha256"
    THEN IF signature.len # HmacLen THEN "500:RangeError"
         ELSE IF signature.value = "hmac" THEN "next"
         ELSE "401:Invalid webhook signature"
    ELSE "401:Invalid webhook signature"

\* table canais: the channels the tenants have configured
Canais ==
    {[id |-> "ch1", tipo |-> "whatsapp", tenant_id |-> "T1"],
     [id |-> "ch2", tipo |-> "whatsapp", tenant_id |-> "T2"]}

ChannelIds == {"ch1", "ch2", "chX"}

\* from.id of the webhook bodies
FromIds == {"cA", "cB"}

\* the customer lookup without its channel_user_id condition
findCustomerAnyUser(custs, fromId, channel) ==
    SelectSeq(custs, LAMBDA c : c.channel_type = channel)

\* SELECT id FROM customers WHERE channel_user_id = $1 AND channel_type = $2
findCustomer(custs, fromId, channel) ==
    SelectSeq(custs, LAMBDA c :
        c.channel_user_id = fromId /\ c.channel_type = channel)

\* POST /webhooks/n8n/message, behind validateWebhookSignature: find or
\* create the customer, log the event, answer
N8nMessage(signature, channel, fromId, dbOk) ==
    LET gate == validateWebhookSignature(signature, secret)
        found == findCustomer(customers, fromId, channel)
        newId == Len(customers) + 1
    IN  /\ IF gate # "next"
           THEN /\ customers' = customers
                /\ last' = [op |-> "n8nMessage", ok |-> FALSE,
                            outcome |-> gate, sig |-> signature,
                            accesses |-> {}]
           ELSE IF ~dbOk
           THEN /\ customers' = customers
                /\ last' = [op |-> "n8nMessage", ok |-> FALSE,
                            outcome |-> "500:DB_ERROR", sig |-> signature,
                            accesses |-> {"customers"}]
           ELSE IF Len(found) > 0
           THEN /\ customers' = customers
                /\ last' = [op |-> "n8nMessage", ok |-> TRUE,
                            outcome |-> "200", sig |-> signature,
                            customerId |-> found[1].id,
                            accesses |-> {"customers", "webhook_logs"}]
           ELSE /\ customers' = Append(customers,
                      [id |-> newId, channel_type |-> channel,
                       channel_user_id |-> fromId])
                /\ last' = [op |-> "n8nMessage", ok |-> TRUE,
                            outcome |-> "200", sig |-> signature,
                            customerId |-> newId,
                            accesses |-> {"customers", "users",
                                          "webhook_logs"}]
        /\ emitted' = {}
        /\ UNCHANGED <<conversas, mensagens, secret, procs, hub>>

\* POST /webhooks/channels/:type/:id, first statement:
\* SELECT tenant_id FROM canais WHERE id = $1 AND tipo = $2
WhChannel(p, signature, type, id, fromId, content, dbOk) ==
    LET rows == {ch \in Canais : ch.id = id /\ ch.tipo = type}
    IN  /\ procs[p].op = "idle"
        /\ IF ~dbOk
           THEN /\ procs' = procs
                /\ last' = [op |-> "webhook", ok |-> FALSE,
                            outcome |-> "500:DB_ERROR", sig |-> signature,
                            accesses |-> {"canais"}]
           ELSE IF rows = {}
           THEN /\ procs' = procs
                /\ last' = [op |-> "webhook", ok |-> FALSE,
                            outcome |-> "404:CHANNEL_NOT_FOUND",
                            sig |-> signature, accesses |-> {"canais"}]
           ELSE /\ procs' = [procs EXCEPT ![p] =
                      [IdleProc EXCEPT !.op = "webhook", !.pc = "select",
                          !.tenantId = (CHOOSE ch \in rows : TRUE).tenant_id,
                          !.canal = type, !.cliente = fromId,
                          !.content = content, !.sig = signature]]
                /\ last' = NoOp
        /\ emitted' = {}
        /\ UNCHANGED <<store, hub>>

\* SELECT id FROM conversas WHERE cliente_id = $1 AND canal = $2
\*   AND tenant_id = $3: conversation.rows[0]?.id
resolveRows(convs, tenantId, canal, cliente) ==
    {c \in DOMAIN convs :
        /\ convs[c].cliente_id = cliente
        /\ convs[c].canal = canal
        /\ convs[c].tenant_id = tenantId}

\* the find step of find-or-create; without ORDER BY, rows[0] is any match
WhSelect(p, dbOk) ==
    LET pr == procs[p]
        rows == resolveRows(conversas, pr.tenantId, pr.canal, pr.cliente)
    IN  /\ pr.op = "webhook"
        /\ pr.pc = "select"
        /\ IF ~dbOk
           THEN /\ procs' = [procs EXCEPT ![p] = IdleProc]
                /\ last' = [op |-> "webhook", ok |-> FALSE,
                            outcome |-> "500:DB_ERROR", sig |-> pr.sig,
                            accesses |-> {"canais", "conversas"}]
           ELSE /\ last' = NoOp
                /\ IF rows = {}
                   THEN procs' = [procs EXCEPT ![p].pc = "insertConv"]
                   ELSE \E c \in rows :
                          procs' = [procs EXCEPT ![p].pc = "message",
                                                 ![p].conv = c]
        /\ emitted' = {}
        /\ UNCHANGED <<store, hub>>

\* the create step: INSERT INTO conversas (...) VALUES (..., 'aberta')
WhInsertConv(p, dbOk) ==
    LET pr == procs[p]
        newId == Len(conversas) + 1
    IN  /\ pr.op = "webhook"
        /\ pr.pc = "insertConv"
        /\ IF ~dbOk
           THEN /\ conversas' = conversas
                /\ procs' = [procs EXCEPT ![p] = IdleProc]
                /\ last' = [op |-> "webhook", ok |-> FALSE,
                            outcome |-> "500:DB_ERROR", sig |-> pr.sig,
                            accesses |-> {"canais", "conversas"}]
           ELSE /\ conversas' = Append(conversas,
                      [id |-> newId, tenant_id |-> pr.tenantId,
                       canal |-> pr.canal, cliente_id |-> pr.cliente,
                       agente_id |-> Null, status |-> "aberta",
                       ultima_mensagem |-> Null])
                /\ procs' = [procs EXCEPT ![p].pc = "message",
                                          ![p].conv = newId]
                /\ last' = NoOp
        /\ emitted' = {}
        /\ UNCHANGED <<mensagens, customers, secret, hub>>

\* INSERT INTO mensagens (..., remetente_tipo, ..., lida, ...)
\*   VALUES (..., 'customer', ..., false, ...), then sendSuccess
WhInsertMsg(p, dbOk) ==
    LET pr == procs[p]
        row == NewMessageRow(mensagens, pr.tenantId, pr.conv, "customer",
                             pr.content, FALSE)
    IN  /\ pr.op = "webhook"
        /\ pr.pc = "message"
        /\ IF ~dbOk
           THEN /\ mensagens' = mensagens
                /\ last' = [op |-> "webhook", ok |-> FALSE,
                            outcome |-> "500:DB_ERROR", sig |-> pr.sig,
                            accesses |-> {"canais", "conversas", "mensagens"}]
           ELSE /\ mensagens' = Append(mensagens, row)
                /\ last' = [op |-> "webhook", ok |-> TRUE,
                            outcome |-> "200", sig |-> pr.sig,
                            tenantId |-> pr.tenantId,
                            canal |-> pr.canal, cliente |-> pr.cliente,
                            conv |-> pr.conv, row |-> row,
                            accesses |-> {"canais", "conversas", "mensagens"}]
        /\ procs' = [procs EXCEPT ![p] = IdleProc]
        /\ emitted' = {}
        /\ UNCHANGED <<conversas, customers, secret, hub>>

\* ============================================== socket.on('message:read')
\* UPDATE mensagens SET lida = true, lida_em = NOW()
\*   WHERE conversa_id = $1 AND tenant_id = $2 AND id = ANY($3)
socketNamedRows(msgs, conversationId, tenantId, messageIds) ==
    {i \in DOMAIN msgs :
        /\ msgs[i].conversa_id = conversationId
        /\ msgs[i].tenant_id = tenantId
        /\ msgs[i].id \in messageIds}

\* the handler: the UPDATE, then socket.to(room).emit('message:read', ...)
SocketRead(s, conversationId, messageIds, dbOk) ==
    LET tenantId == sockets[s].tenantId
        hit == IF messageIds # {}
               THEN socketNamedRows(mensagens, conversationId, tenantId,
                                    messageIds)
               ELSE markAllRows(mensagens, conversationId, tenantId)
    IN  /\ sockets[s] # Closed
        /\ IF dbOk
           THEN /\ mensagens' = SetLida(mensagens, hit)
                /\ emitted' =
                     {SocketEmit(s, ConversationRoom(conversationId),
                                 "message:read",
                                 [conversationId |-> conversationId,
                                  messageIds |-> messageIds])}
                /\ last' = [op |-> "socketRead", ok |-> TRUE, socket |-> s,
                            count |-> Cardinality(
                               {i \in hit : ~mensagens[i].lida})]
           ELSE /\ mensagens' = mensagens
                /\ emitted' =
                     {ErrorEvent(s, "Failed to mark messages as read")}
                /\ last' = [op |-> "socketRead", ok |-> FALSE, socket |-> s,
                            count |-> 0]
        /\ UNCHANGED <<conversas, customers, secret, procs, hub>>


\* ------------------------------------------- ConversationsService.create
ConvCreate(userId, customerId, channel) ==
    /\ getTenantId(userId) # Null
    /\ conversas' = Append(conversas,
          [id |-> Len(conversas) + 1,
           tenant_id |-> getTenantId(userId),
           canal |-> channel,
           cliente_id |-> customerId,
           agente_id |-> Null,
           status |-> "aberta",
           ultima_mensagem |-> Null])
    /\ last' = NoOp
    /\ emitted' = {}
    /\ UNCHANGED <<mensagens, customers, secret, procs, hub>>

\* ------------------------------------------------------------ scenarios
\* input sets of the requests
OneProc == {"p1"}

TwoSenders == {"customer", "agent"}

StatusInputs == {"open", "in_progress", "resolved", "closed"}

RoomConv == Len(conversas) < MaxConvs

RoomMsg == Len(mensagens) < MaxMsgs

\* the message store with both tenants: REST appends and createByTenantId
NextStore ==
    \/ \E u \in Users : RoomConv /\ ConvCreate(u, "cA", "whatsapp")
    \/ \E p \in OneProc, u \in Users, c \in 1..MaxConvs, st \in TwoSenders :
          CreateCheck(p, u, c, st, Short)
    \/ \E p \in OneProc, ok \in BOOLEAN : RoomMsg /\ CreateInsert(p, ok)
    \/ \E p \in OneProc, ok \in BOOLEAN : CreatePreview(p, ok)
    \/ \E p \in OneProc : CreateEmit(p)
    \/ \E p \in OneProc, t \in Tenants, c \in 1..MaxConvs, ok \in BOOLEAN :
          RoomMsg /\ CbtInsert(p, t, c, "customer", Short, ok)
    \/ \E p \in OneProc, ok \in BOOLEAN : CbtPreview(p, ok)
    \/ \E p \in OneProc : CbtEmit(p)

SpecStore == Init /\ [][NextStore]_vars

NoSignature == [kind |-> "absent", value |-> Null, len |-> 0]

\* the three appends of one tenant with every sender type
NextAppend ==
    \/ RoomConv /\ ConvCreate("u1", "cA", "whatsapp")
    \/ \E p \in OneProc, u \in {"u1", "u0"}, c \in 1..MaxConvs,
          st \in senderTypes :
          CreateCheck(p, u, c, st, Short)
    \/ \E p \in OneProc, ok \in BOOLEAN : RoomMsg /\ CreateInsert(p, ok)
    \/ \E p \in OneProc, ok \in BOOLEAN : CreatePreview(p, ok)
    \/ \E p \in OneProc : CreateEmit(p)
    \/ \E p \in OneProc, c \in 1..MaxConvs, st \in senderTypes,
          ok \in BOOLEAN :
          RoomMsg /\ CbtInsert(p, "T1", c, st, Short, ok)
    \/ \E p \in OneProc, ok \in BOOLEAN : CbtPreview(p, ok)
    \/ \E p \in OneProc : CbtEmit(p)
    \/ \E p \in OneProc, id \in {"ch1", "chX"}, ok \in BOOLEAN :
          WhChannel(p, NoSignature, "whatsapp", id, "cA", Short, ok)
    \/ \E p \in OneProc, ok \in BOOLEAN : WhSelect(p, ok)
    \/ \E p \in OneProc, ok \in BOOLEAN : RoomConv /\ WhInsertConv(p, ok)
    \/ \E p \in OneProc, ok \in BOOLEAN : RoomMsg /\ WhInsertMsg(p, ok)

SpecAppend == Init /\ [][NextAppend]_vars

\* the read-state: appends of both tenants, markAsRead over REST and the
\* message:read handler of one connection
NextRead ==
    \/ RoomConv /\ ConvCreate("u1", "cA", "whatsapp")
    \/ \E p \in OneProc, t \in Tenants, c \in 1..MaxConvs, st \in TwoSenders :
          RoomMsg /\ CbtInsert(p, t, c, st, Short, TRUE)
    \/ \E p \in OneProc : CbtPreview(p, TRUE)
    \/ \E p \in OneProc : CbtEmit(p)
    \/ \E u \in Users, c \in 1..MaxConvs, ids \in SUBSET (1..MaxMsgs) :
          MarkAsRead(u, c, ids, TRUE)
    \/ MarkAsRead("u1", 1, {}, FALSE)
    \/ MarkAsReadUndefinedTable("u1", 1, {})
    \/ \E t \in {"u1", "u2"} : Connect("s1", t)
    \/ Disconnect("s1")
    \/ \E c \in 1..MaxConvs, ids \in {{}, 1..MaxMsgs} :
          SocketRead("s1", c, ids, TRUE)
    \/ SocketRead("s1", 1, {}, FALSE)

SpecRead == Init /\ [][NextRead]_vars

RoomHubConv == Len(conversas) < MaxHubConvs

RoomHubMsg == Len(mensagens) < MaxHubMsgs

\* a connection with no conversation:join of its own in flight
NoJoinPending(s) == \A j \in pendingJoin : j.socket # s

\* the hub: two connections, the REST append and the channel webhook
NextHub ==
    \/ \E u \in {"u1", "u2"} : RoomHubConv /\ ConvCreate(u, "cA", "whatsapp")
    \/ \E t \in Tokens : Connect("s1", t)
    \/ Connect("s2", "u2")
    \/ \E s \in Sockets : Disconnect(s)
    \/ \E s \in Sockets, c \in 1..MaxHubConvs :
          NoJoinPending(s) /\ JoinQuery(s, c, TRUE)
    \/ NoJoinPending("s1") /\ JoinQuery("s1", 1, FALSE)
    \/ \E j \in pendingJoin : JoinResume(j)
    \/ SocketRead("s1", 1, {}, FALSE)
    \/ \E s \in Sockets, c \in 1..MaxHubConvs :
          /\ (ConversationRoom(c) \in rooms[s] \/ ~NoJoinPending(s))
          /\ Leave(s, c)
    \/ \E c \in 1..MaxHubConvs : Typing("s2", c, "typing:stop", TRUE)
    \/ \E p \in OneProc, u \in {"u1", "u2"}, c \in 1..MaxHubConvs :
          CreateCheck(p, u, c, "agent", Short)
    \/ \E p \in OneProc : RoomHubMsg /\ CreateInsert(p, TRUE)
    \/ \E p \in OneProc : CreatePreview(p, TRUE)
    \/ \E p \in OneProc : CreateEmit(p)
    \/ \E p \in OneProc :
          WhChannel(p, NoSignature, "whatsapp", "ch1", "cA", Short, TRUE)
    \/ \E p \in OneProc : WhSelect(p, TRUE)
    \/ \E p \in OneProc : RoomHubConv /\ WhInsertConv(p, TRUE)
    \/ \E p \in OneProc, ok \in BOOLEAN : RoomHubMsg /\ WhInsertMsg(p, ok)

SpecHub == Init /\ [][NextHub]_vars

\* the signature headers the channel route is called with
WhSigs == {NoSignature, [kind |-> "raw", value |-> ConfiguredSecret, len |-> 6]}

\* the webhook routes, with or without a configured secret
InitWebhook ==
    /\ conversas = <<>>
    /\ mensagens = <<>>
    /\ customers = <<>>
    /\ secret \in {Null, ConfiguredSecret}
    /\ procs = [p \in Procs |-> IdleProc]
    /\ sockets = [s \in Sockets |-> Closed]
    /\ rooms = [s \in Sockets |-> {}]
    /\ pendingJoin = {}
    /\ emitted = {}
    /\ last = NoOp

NextWebhook ==
    \/ \E sig \in SigHeaders, ok \in BOOLEAN :
          N8nMessage(sig, "whatsapp", "cA", ok)
    \/ \E p \in Procs, sig \in WhSigs, id \in ChannelIds, ok \in BOOLEAN :
          WhChannel(p, sig, "whatsapp", id, "cA", Short, ok)
    \/ \E p \in Procs, ok \in BOOLEAN : WhSelect(p, ok)
    \/ \E p \in Procs, ok \in BOOLEAN : RoomConv /\ WhInsertConv(p, ok)
    \/ \E p \in Procs, ok \in BOOLEAN : RoomMsg /\ WhInsertMsg(p, ok)

SpecWebhook == InitWebhook /\ [][NextWebhook]_vars

\* the n8n message route alone: every kind of signature header, two
\* channels and two senders
NextN8n ==
    \/ \E sig \in SigHeaders, ch \in channelTypes, f \in FromIds :
          N8nMessage(sig, ch, f, TRUE)
    \/ N8nMessage(NoSignature, "whatsapp", "cA", FALSE)

SpecN8n == InitWebhook /\ [][NextN8n]_vars

\* every operation of the model
\* the connections alone: handshakes with every kind of token, joins with
\* their query in flight, leaves, typing relays and failing store accesses
NextSocket ==
    \/ \E u \in {"u1", "u2"} : RoomHubConv /\ ConvCreate(u, "cA", "whatsapp")
    \/ \E s \in Sockets, t \in Tokens : Connect(s, t)
    \/ \E s \in Sockets : Disconnect(s)
    \/ \E s \in Sockets, c \in 1..MaxHubConvs, ok \in BOOLEAN :
          NoJoinPending(s) /\ JoinQuery(s, c, ok)
    \/ \E j \in pendingJoin : JoinResume(j)
    \/ \E s \in Sockets, c \in 1..MaxHubConvs : Leave(s, c)
    \/ \E s \in Sockets, c \in 1..MaxHubConvs :
          Typing(s, c, "typing:stop", TRUE)
    \/ \E s \in Sockets, c \in 1..MaxHubConvs :
          SocketRead(s, c, {}, FALSE)

SpecSocket == Init /\ [][NextSocket]_vars

\* the REST append of users of both tenants, with one connection of tenant
\* T2 joining the rooms of its conversations
NextCreate ==
    \/ \E u \in {"u1", "u2"} : RoomHubConv /\ ConvCreate(u, "cA", "whatsapp")
    \/ Connect("s1", "u2")
    \/ \E c \in 1..MaxHubConvs :
          NoJoinPending("s1") /\ JoinQuery("s1", c, TRUE)
    \/ \E j \in pendingJoin : JoinResume(j)
    \/ \E p \in OneProc, u \in {"u1", "u2"}, c \in 1..MaxConvs,
          st \in senderTypes :
          CreateCheck(p, u, c, st, Short)
    \/ \E p \in OneProc : RoomHubMsg /\ CreateInsert(p, TRUE)
    \/ \E p \in OneProc : CreatePreview(p, TRUE)
    \/ \E p \in OneProc : CreateEmit(p)

SpecCreate == Init /\ [][NextCreate]_vars

\* status changes and assignments alone, by users of both tenants
NextAssign ==
    \/ \E u \in {"u1", "u2"} : RoomConv /\ ConvCreate(u, "cA", "whatsapp")
    \/ \E u \in Users, c \in 1..MaxConvs, st \in StatusInputs,
          ok \in BOOLEAN :
          UpdateStatus(c, u, st, ok)
    \/ \E u \in Users, c \in 1..MaxConvs, a \in Agents, ok \in BOOLEAN :
          AssignAgent(c, u, a, ok)

SpecAssign == Init /\ [][NextAssign]_vars

\* the life of the messages of one tenant: REST appends, marks over REST
\* and over the socket, and the status changes of their conversation
NextLifecycle ==
    \/ RoomHubConv /\ ConvCreate("u1", "cA", "whatsapp")
    \/ Connect("s1", "u1")
    \/ \E p \in OneProc, c \in 1..MaxHubConvs, st \in TwoSenders :
          CreateCheck(p, "u1", c, st, Short)
    \/ \E p \in OneProc : RoomHubMsg /\ CreateInsert(p, TRUE)
    \/ \E p \in OneProc : CreatePreview(p, TRUE)
    \/ \E p \in OneProc : CreateEmit(p)
    \/ \E u \in {"u1", "u2"}, c \in 1..MaxHubConvs,
          ids \in SUBSET (1..MaxHubMsgs) :
          MarkAsRead(u, c, ids, TRUE)
    \/ \E c \in 1..MaxHubConvs, ids \in SUBSET (1..MaxHubMsgs) :
          SocketRead("s1", c, ids, TRUE)
    \/ \E c \in 1..MaxHubConvs : UpdateStatus(c, "u1", "closed", TRUE)
    \/ \E c \in 1..MaxHubConvs : AssignAgent(c, "u1", "a1", TRUE)

SpecLifecycle == Init /\ [][NextLifecycle]_vars

\* the conversation directory: status changes and assignments by users of
\* both tenants and by a user without tenant, next to the message store's
\* writes, with one connection in its tenant's room
NextDirectory ==
    \/ \E u \in {"u1", "u2"} : RoomHubConv /\ ConvCreate(u, "cA", "whatsapp")
    \/ \E u \in Users, c \in 1..MaxConvs, st \in StatusInputs :
          UpdateStatus(c, u, st, TRUE)
    \/ UpdateStatus(1, "u1", "closed", FALSE)
    \/ \E u \in Users, c \in 1..MaxConvs, a \in Agents :
          AssignAgent(c, u, a, TRUE)
    \/ AssignAgent(1, "u1", "a1", FALSE)
    \/ Connect("s1", "u1")
    \/ Disconnect("s1")
    \/ \E u \in Users, c \in 1..MaxConvs : MarkAsRead(u, c, {}, TRUE)
    \/ \E c \in 1..MaxConvs, ids \in {{}, 1..MaxMsgs} :
          SocketRead("s1", c, ids, TRUE)
    \/ \E p \in OneProc, u \in Users, c \in 1..MaxConvs :
          CreateCheck(p, u, c, "customer", Short)
    \/ \E p \in OneProc : RoomHubMsg /\ CreateInsert(p, TRUE)
    \/ \E p \in OneProc : CreatePreview(p, TRUE)
    \/ \E p \in OneProc : CreateEmit(p)

SpecDirectory == Init /\ [][NextDirectory]_vars

Next ==
    \/ NextStore
    \/ NextAssign
    \/ NextLifecycle
    \/ NextCreate
    \/ NextSocket
    \/ NextN8n
    \/ NextDirectory
    \/ NextAppend
    \/ NextRead
    \/ NextHub
    \/ NextWebhook
    \/ \E u \in Users, c \in 1..MaxConvs, st \in StatusInputs, ok \in BOOLEAN :
          UpdateStatus(c, u, st, ok)
    \/ \E u \in Users, c \in 1..MaxConvs, a \in Agents, ok \in BOOLEAN :
          AssignAgent(c, u, a, ok)
    \/ \E sk \in Sockets, c \in 1..MaxConvs, ok \in BOOLEAN :
          Typing(sk, c, "typing:start", ok)

Spec == Init /\ [][Next]_vars

\* ================================================================ claims
\* the conversations created under another tenant than the caller's
ForeignConvs(userId) ==
    {c \in ConvIds : conversas[c].tenant_id # getTenantId(userId)}

\* the conversation ids of the messages the Message Store reads return
MessagesReturned(userId) ==
    {m.conversation_id :
        m \in UNION ({Range(messageGetById(i, userId).messages) : i \in MsgIds}
              \cup {Range(listByConversation(userId, c, 1, MaxMsgs, Null,
                                             Null).messages) : c \in ConvIds})}

\* the conversation ids the Conversation Directory reads return
ConversationsReturned(userId) ==
    {r.id : r \in conversationsList(userId)
              \cup UNION {conversationGetById(c, userId).rows : c \in ConvIds}
              \cup UNION {getByTenantId(getTenantId(userId), c) : c \in ConvIds}}

\* C1: whatever the history, no Message Store or Conversation Directory
\* operation invoked for a tenant returns a conversation, or a message of a
\* conversation, that was created under another tenant.
C1_TenantIsolation ==
    \A u \in Users :
        (MessagesReturned(u) \cup ConversationsReturned(u))
            \cap ForeignConvs(u) = {}

SameTenant(userId) == {u \in Users : getTenantId(u) = getTenantId(userId)}

\* the listing holds the message the append returned, as it was supplied
Includes(listing, appended) ==
    /\ listing.error = Null
    /\ \E i \in DOMAIN listing.messages :
          /\ listing.messages[i].id = appended.result.id
          /\ listing.messages[i].content = appended.content
          /\ listing.messages[i].sender_type = appended.senderType

OnlyMarked(hit) ==
    /\ Len(mensagens') = Len(mensagens)
    /\ \A i \in DOMAIN mensagens :
          mensagens'[i] = IF i \in hit
                          THEN [mensagens[i] EXCEPT !.lida = TRUE]
                          ELSE mensagens[i]

\* the unread customer-authored messages of a conversation in a tenant
UnreadCustomer(conversationId, tenantId) ==
    {i \in MsgIds :
        /\ mensagens[i].conversa_id = conversationId
        /\ mensagens[i].tenant_id = tenantId
        /\ ~mensagens[i].lida
        /\ mapSenderTypeToEn(mensagens[i].remetente_tipo) = "customer"}

\* the unread messages among those named, of a conversation in a tenant
UnreadNamed(conversationId, tenantId, messageIds) ==
    {i \in MsgIds :
        /\ i \in messageIds
        /\ mensagens[i].conversa_id = conversationId
        /\ mensagens[i].tenant_id = tenantId
        /\ ~mensagens[i].lida}

\* C9: a markAsRead naming at least one unread message of the conversation
\* returns a count greater than 0 (the number of those messages), and the
\* same call repeated right after it finds nothing to mark: it returns 0 and
\* changes no message.
C9_MarkReadIdempotent ==
    [][\A u \in Users, c \in 1..MaxConvs, ids \in SUBSET (1..MaxMsgs) :
          (/\ last'.op = "markAsRead"
           /\ ids # {}
           /\ UnreadNamed(c, getTenantId(u), ids) # {}
           /\ MarkAsRead(u, c, ids, TRUE))
          => /\ last'.ok
             /\ last'.count > 0
             /\ last'.count = Cardinality(UnreadNamed(c, getTenantId(u), ids))
             /\ Cardinality(markAsReadRows(mensagens', c, getTenantId(u),
                                           ids)) = 0
             /\ SetLida(mensagens', markAsReadRows(mensagens', c,
                                        getTenantId(u), ids)) = mensagens'
      ]_vars

C9_Witness ==
    /\ last.op = "markAsRead"
    /\ last.ok
    /\ last.named
    /\ last.count > 0
    /\ \E i \in MsgIds : mensagens[i].lida /\ IsCustomerRow(mensagens[i])

\* C10: markAsRead without messageIds, over REST or over the socket, turns
\* exactly the unread customer-authored messages of the named conversation
\* in the caller's tenant to read, and changes no other message.
C10_MarkAllScope ==
    [][/\ \A u \in Users, c \in 1..MaxConvs :
            (/\ last'.op = "markAsRead"
             /\ getTenantId(u) # Null
             /\ MarkAsRead(u, c, {}, TRUE))
            => /\ OnlyMarked(UnreadCustomer(c, getTenantId(u)))
               /\ last'.count
                    = Cardinality(UnreadCustomer(c, getTenantId(u)))
       /\ \A s \in Sockets, c \in 1..MaxConvs :
            (last'.op = "socketRead" /\ SocketRead(s, c, {}, TRUE))
            => OnlyMarked(UnreadCustomer(c, sockets[s].tenantId))
      ]_vars

C10_Witness ==
    /\ last.op = "markAsRead"
    /\ last.ok
    /\ ~last.named
    /\ last.count > 0
    /\ \E i \in MsgIds : mensagens[i].lida /\ IsCustomerRow(mensagens[i])
    /\ \E i \in MsgIds : ~mensagens[i].lida

\* C11: markAsRead with messageIds turns to read exactly the named messages
\* of the given conversation and tenant that are unread before the call, and
\* returns their number; named ids of another conversation or tenant, and
\* named messages already read, count for nothing and stay as they are.
C11_MarkNamedExact ==
    [][\A u \in Users, c \in 1..MaxConvs, ids \in SUBSET (1..MaxMsgs) :
          (/\ last'.op = "markAsRead"
           /\ ids # {}
           /\ getTenantId(u) # Null
           /\ MarkAsRead(u, c, ids, TRUE))
          => /\ last'.ok
             /\ last'.count = Cardinality(UnreadNamed(c, getTenantId(u), ids))
             /\ OnlyMarked(UnreadNamed(c, getTenantId(u), ids))
      ]_vars

\* two messages named, one of them marked: the other was already read, or
\* is of another conversation or tenant
C11_Witness ==
    /\ last.op = "markAsRead"
    /\ last.ok
    /\ last.asked = 2
    /\ last.count = 1
    /\ Len(mensagens) >= 2
    /\ \E i \in MsgIds : mensagens[i].lida

\* C12: a message:read event is emitted, to the room of its conversation,
\* only by a mark-read that succeeded and turned at least one message from
\* unread to read, and it is not delivered to the connection that asked.
C12_ReadEventOnlyOnMark ==
    \A e \in emitted :
        e.ev = "message:read"
        => /\ last.op \in {"socketRead", "markAsRead"}
           /\ last.ok
           /\ last.count > 0
           /\ e.room = ConversationRoom(e.payload.conversationId)
           /\ e.from \notin e.to

\* what holds of every connection slot: one that is not admitted is in no
\* room and receives nothing; an admitted one carries a user and that
\* user's tenant and is a member of the tenant's room
HandshakeState ==
    \A s \in Sockets :
        IF sockets[s] = Closed
        THEN /\ rooms[s] = {}
             /\ Inbox(s) = {}
        ELSE /\ sockets[s].userId \in Users
             /\ sockets[s].tenantId # Null
             /\ sockets[s].tenantId = getTenantId(sockets[s].userId)
             /\ TenantRoom(sockets[s].tenantId) \in rooms[s]
             /\ \A t \in Tenants :
                   TenantRoom(t) \in rooms[s] => t = sockets[s].tenantId

\* C13: authentication happens once, at the handshake. A handshake with no
\* token, an invalid token or a user without tenant never reaches the
\* connection handler: it joins no room and causes and receives no event.
\* An admitted connection keeps its userId and tenantId for its lifetime and
\* is a member of tenant:{tenantId} from connect until disconnect.
C13_HandshakeAuth ==
    [][/\ HandshakeState'
       /\ \A s \in Sockets :
             (sockets[s] # Closed /\ sockets'[s] # Closed)
             => sockets'[s] = sockets[s]
       /\ \A s \in Sockets, t \in Tokens :
             (/\ (t \notin Users \/ getTenantId(t) = Null)
              /\ Connect(s, t))
             => /\ last'.op = "connect" /\ ~last'.ok
                /\ sockets'[s] = Closed
                /\ rooms' = rooms
                /\ emitted' = {}
                /\ UNCHANGED <<store, procs, pendingJoin>>
      ]_vars

\* a handshake of a user without tenant has just been rejected while
\* another connection is admitted and joined to a conversation
C13_Witness ==
    /\ last.op = "connect"
    /\ ~last.ok
    /\ last.error = "User not found"
    /\ sockets[last.socket] = Closed
    /\ \E s \in Sockets :
          /\ sockets[s] # Closed
          /\ \E c \in ConvIds : ConversationRoom(c) \in rooms[s]

\* C14: MessagesService.create to a conversation that does not exist, or that
\* belongs to another tenant than the caller's, fails with NotFound and
\* changes nothing: no message row, no preview update, no event, and the
\* rooms as they were.
C14_CreateForeignNotFound ==
    [][(procs' # procs \/ last'.op = "create")
       => \A p \in Procs, u \in Users, c \in 1..MaxConvs,
             st \in senderTypes :
             (/\ procs[p].op = "idle"
              /\ getTenantId(u) # Null
              /\ (c \notin ConvIds
                    \/ conversas[c].tenant_id # getTenantId(u))
              /\ CreateCheck(p, u, c, st, Short))
             => /\ last' = [op |-> "create", ok |-> FALSE,
                            error |-> "NOT_FOUND:Conversation"]
                /\ emitted' = {}
                /\ UNCHANGED <<store, hub, procs>>
      ]_vars

\* a create has just failed on another tenant's conversation while a
\* connection of that tenant sits in the conversation's room
C14_Witness ==
    /\ last.op = "create"
    /\ ~last.ok
    /\ last.error = "NOT_FOUND:Conversation"
    /\ \E c \in ConvIds, s \in Sockets : ConversationRoom(c) \in rooms[s]
    /\ \A c \in ConvIds : conversas[c].tenant_id = "T2"
    /\ mensagens = <<>>

\* the outcome of a socket action that failed in the store: one error event,
\* to the connection that triggered it and to nobody else, the connection
\* still open, every membership and the store as they were
OnlyErrorTo(s) ==
    /\ emitted' # {}
    /\ \A e \in emitted' : e.ev = "error" /\ e.to = {s}
    /\ \A x \in Sockets \ {s} : {e \in emitted' : x \in e.to} = {}
    /\ sockets'[s] # Closed
    /\ sockets' = sockets
    /\ rooms' = rooms
    /\ UNCHANGED store

SuppliedSenderTypes(row) ==
    {procs'[p].senderType :
        p \in {q \in Procs : /\ procs'[q].op \in {"create", "createByTenantId"}
                             /\ procs'[q].row = row}}
    \cup (IF last'.op = "webhook" /\ last'.ok THEN {"customer"} ELSE {})

\* C8: the message an append (REST create, createByTenantId, the channel
\* webhook) has just stored is unread exactly when its sender type is
\* customer; an agent, system or bot message is read from its creation.
C8_InitialReadFlag ==
    [][Len(mensagens') # Len(mensagens) =>
         LET m == mensagens'[Len(mensagens')]
         IN  /\ Len(mensagens') = Len(mensagens) + 1
             /\ SuppliedSenderTypes(m) # {}
             /\ \A st \in SuppliedSenderTypes(m) :
                   /\ m.lida = (st # "customer")
                   /\ mapSenderTypeToEn(m.remetente_tipo) = st
      ]_vars

C8_Witness ==
    /\ \E i \in MsgIds : /\ ~mensagens[i].lida
                         /\ mensagens[i].remetente_tipo = "customer"
    /\ \E i \in MsgIds : /\ mensagens[i].lida
                         /\ mensagens[i].remetente_tipo \in
                               {"agente", "sistema", "bot"}

\* C16: on the REST path the stored sender type is never customer (it is
\* agent, or comes from the authenticated user's role), so a message an
\* authenticated caller has just created through MessagesService.create is
\* not a customer message and is not unread.
C16_RestNeverCustomer ==
    (last.op = "create" /\ last.ok)
    => /\ last.result.sender_type # "customer"
       /\ last.result.read
       /\ \A i \in MsgIds :
             mensagens[i].id = last.result.id
             => ~IsCustomerRow(mensagens[i])

\* the signature header is present and is neither the configured secret
\* nor the sha256= HMAC of the body
BadSignature(signature) ==
    /\ signature.kind # "absent"
    /\ ~(signature.kind = "raw" /\ signature.value = secret)
    /\ ~(/\ signature.kind = "sha256"
         /\ signature.value = "hmac"
         /\ signature.len = HmacLen)

\* C17: with a secret configured, a request whose signature header is
\* present and is neither the secret nor the expected sha256= HMAC, whatever
\* its value and length, is answered with the Unauthorized error and with
\* no other error.
C17_BadSignatureUnauthorized ==
    (/\ secret # Null
     /\ last.op = "n8nMessage"
     /\ BadSignature(last.sig))
    => last.outcome = "401:Invalid webhook signature"

\* the customers stored for a (channel, from.id) pair
CustomersOf(custs, channel, fromId) ==
    {i \in DOMAIN custs :
        /\ custs[i].channel_type = channel
        /\ custs[i].channel_user_id = fromId}

ReadOutcomes(userId, id) ==
    <<listByConversation(userId, id, 1, MaxPerPage, Null, Null),
      messageGetById(id, userId),
      getUnreadCount(userId, id),
      conversationGetById(id, userId)>>

\* C18: a caller whose user resolves to no tenant gets from every operation
\* of the message store and of the conversation directory the outcome (the
\* same error class, code and message, or the same result) that a caller
\* with a tenant gets for a conversation or message that does not exist.
C18_NoTenantLooksAbsent ==
    /\ \A u \in Users, id \in 1..MaxConvs :
          (/\ getTenantId(u) # Null
           /\ id \notin ConvIds
           /\ id \notin MsgIds)
          => ReadOutcomes("u0", id) = ReadOutcomes(u, id)
    /\ (/\ last.op \in {"create", "markAsRead", "updateStatus",
                         "assignAgent"}
        /\ ~last.ok)
       => last.error # "NOT_FOUND:User"

\* C19: a successful status change (updateStatus, close) or agent assignment
\* is followed by a conversation:updated event carrying the conversation's
\* summary to the room of its tenant.
C19_StatusChangeBroadcast ==
    (/\ last.op \in {"updateStatus", "assignAgent"}
     /\ last.ok)
    => emitConversationUpdate(
          getTenantId(last.userId),
          mapConversationToResponse(conversas[last.conv])) \subseteq emitted

\* the content of the message the append completed last has stored
AppendedContent ==
    IF last.op = "webhook" THEN last.row.conteudo ELSE last.content

\* C21: every successful append, over REST and over the webhook alike, has
\* set the last-message preview of the owning conversation to the appended
\* content truncated to 100 characters by the time it completes.
C21_AppendUpdatesPreview ==
    (/\ last.op \in {"create", "createByTenantId", "webhook"}
     /\ last.ok)
    => /\ last.conv \in ConvIds
       /\ conversas[last.conv].ultima_mensagem
             \in Seq(Range(Short) \cup Range(Long))
       /\ conversas[last.conv].ultima_mensagem
             = substring(AppendedContent, PreviewLen)

\* C22: a failure of the last-message preview update never fails delivery:
\* in MessagesService.create and in createByTenantId, when the insert has
\* succeeded and the preview update fails, the operation keeps the stored
\* message and goes on to broadcast message:new and return it.
C22_PreviewFailureHarmless ==
    [][\A p \in Procs :
          (/\ procs[p].pc = "preview"
           /\ (CreatePreview(p, FALSE) \/ CbtPreview(p, FALSE)))
          => /\ procs'[p].pc = "emit"
             /\ procs'[p].row = procs[p].row
             /\ mensagens' = mensagens
             /\ last' = NoOp
      ]_vars

\* C23: a failed mark-read never raises: whatever store error occurs while
\* MessagesService.markAsRead runs its update, the caller gets 0 and not
\* the error, and no message's read state has changed.
C23_MarkReadNeverRaises ==
    (/\ last.op = "markAsRead"
     /\ last.error # "NOT_FOUND:User")
    => /\ last.ok
       /\ last.error = Null
       /\ last.count \in 0..Len(mensagens)

\* C24: assignAgent is one atomic update. A successful assignAgent by the
\* owning tenant leaves the conversation with the given agent and status
\* in_progress whatever its status was (closed included); no step of any
\* operation changes a conversation's agent without leaving it in_progress,
\* so no reader sees the new agent with the old status; on a conversation
\* that is missing or of another tenant it fails with NotFound and changes
\* nothing.
C24_AssignAgentAtomic ==
    [][/\ \A c \in ConvIds :
             conversas'[c].agente_id # conversas[c].agente_id
             => mapStatusToEn(conversas'[c].status) = "in_progress"
       /\ \A u \in Users, c \in 1..MaxConvs, a \in Agents :
             (/\ last'.op = "assignAgent"
              /\ getTenantId(u) # Null
              /\ AssignAgent(c, u, a, TRUE))
             => IF c \in ConvIds /\ conversas[c].tenant_id = getTenantId(u)
                THEN /\ last'.ok
                     /\ conversas'[c].agente_id = a
                     /\ mapStatusToEn(conversas'[c].status) = "in_progress"
                     /\ conversas' = [conversas EXCEPT
                            ![c].agente_id = a,
                            ![c].status = mapStatusToPt("in_progress")]
                ELSE /\ ~last'.ok
                     /\ last'.error = "NOT_FOUND:Conversation"
                     /\ conversas' = conversas
      ]_vars

\* an agent has just been assigned to a conversation that was closed
C24_Witness ==
    /\ last.op = "assignAgent"
    /\ last.ok
    /\ mapStatusToEn(last.prior) = "closed"
    /\ conversas[last.conv].agente_id \in Agents
    /\ mapStatusToEn(conversas[last.conv].status) = "in_progress"

\* C25: after any sequence of REST appends, webhook appends and
\* createByTenantId calls, every stored message carries the tenant id of
\* the conversation it belongs to.
C25_MessageTenantIsConversationTenant ==
    \A i \in MsgIds :
        /\ mensagens[i].conversa_id \in ConvIds
        /\ mensagens[i].tenant_id
              = conversas[mensagens[i].conversa_id].tenant_id

\* C26: messages are immutable. In every step of every operation (append,
\* markAsRead over REST, message:read over the socket, the reads, status
\* and assignment changes) no message is deleted, an existing message keeps
\* its content, sender type, tenant and conversation, and its read flag
\* changes only from unread to read.
C26_MessageImmutable ==
    [][/\ Len(mensagens') >= Len(mensagens)
       /\ \A i \in DOMAIN mensagens :
             \/ mensagens'[i] = mensagens[i]
             \/ /\ ~mensagens[i].lida
                /\ mensagens'[i] = [mensagens[i] EXCEPT !.lida = TRUE]
      ]_vars

\* a customer message has just been marked read, over REST or the socket,
\* in a conversation whose status was changed since its creation
C26_Witness ==
    /\ last.op \in {"markAsRead", "socketRead"}
    /\ last.ok
    /\ last.count > 0
    /\ \E i \in MsgIds :
          /\ mensagens[i].lida
          /\ IsCustomerRow(mensagens[i])
          /\ mensagens[i].conteudo = Short
          /\ conversas[mensagens[i].conversa_id].status # "aberta"

\* the events a client originates
ClientEvents == {"typing:start", "typing:stop", "message:read"}

\* C27: no client-originated event (typing:start, typing:stop, message:read)
\* sent by a connection of one tenant is delivered to a connection of
\* another tenant; a connection causes events in room conversation:{c}
\* only if c belongs to its tenant and it is a member of that room.
C27_ClientEventsStayInTenant ==
    \A e \in emitted :
        e.ev \in ClientEvents
        => /\ \A r \in e.to :
                 sockets[r].tenantId = sockets[e.from].tenantId
           /\ e.room.conv \in ConvIds
           /\ conversas[e.room.conv].tenant_id = sockets[e.from].tenantId
           /\ e.room \in rooms[e.from]

\* C28: for each successful append every connection receives the
\* message:new event of that message at most once, a connection that is a
\* member of both the conversation's room and the tenant's room included.
C28_NewMessageAtMostOnce ==
    \A s \in Sockets :
        \A e1 \in Inbox(s), e2 \in Inbox(s) :
            (/\ e1.ev = "message:new"
             /\ e2.ev = "message:new"
             /\ e1.payload.id = e2.payload.id)
            => e1 = e2

\* C29: when a connection sends conversation:join(c) and then
\* conversation:leave(c) for a conversation of its tenant, then once both
\* handlers have finished it is not a member of room conversation:{c},
\* however the join handler's ownership query interleaves with the leave.
C29_LeaveAfterJoinWins ==
    (/\ last.op = "join"
     /\ last.left)
    => ConversationRoom(last.conv) \notin rooms[last.socket]

\* C30: after any sequence of REST appends, webhook appends and mark-read
\* calls, the unread_count the conversation directory reports for a
\* conversation (list and getById) equals what getUnreadCount of the message
\* store returns for the same conversation and tenant: the number of its
\* unread customer-authored messages.
C30_UnreadCountersAgree ==
    \A u \in Users, c \in ConvIds :
        conversas[c].tenant_id = getTenantId(u)
        => /\ getUnreadCount(u, c)
                 = Cardinality(UnreadCustomer(c, getTenantId(u)))
           /\ \A r \in conversationsList(u) :
                 r.id = c => r.unread_count = getUnreadCount(u, c)
           /\ \A r \in conversationGetById(c, u).rows :
                 r.unread_count = getUnreadCount(u, c)

\* the message a completed append stored, as the clients are sent it
AppendedMessage ==
    IF last.op = "create" THEN last.result ELSE mapMessageToResponse(last.row)

\* C2: a successful append, over REST or over the channel webhook, emits
\* message:new with the message to the conversation room and to the tenant
\* room, so that the connections joined to them receive it.
C2_AppendBroadcasts ==
    (last.op \in {"create", "webhook"} /\ last.ok) =>
        emitNewMessage(AppendedMessage.tenant_id,
                       AppendedMessage.conversation_id, AppendedMessage)
            \subseteq emitted

\* C3: whatever the interleaving of the lookups and inserts of concurrent
\* channel webhook calls, the store holds at most one conversation per
\* (tenant, channel, customer) and the calls resolve the same conversation.
C3_OneConversationPerKey ==
    /\ \A t \in Tenants, canal \in channelTypes, cliente \in Customers :
          Cardinality(resolveRows(conversas, t, canal, cliente)) <= 1
    /\ \A p, q \in Procs :
          (/\ procs[p].op = "webhook" /\ procs[p].pc = "message"
           /\ procs[q].op = "webhook" /\ procs[q].pc = "message"
           /\ procs[p].tenantId = procs[q].tenantId
           /\ procs[p].canal = procs[q].canal
           /\ procs[p].cliente = procs[q].cliente)
          => procs[p].conv = procs[q].conv

\* C4: a connection is a member of a conversation room only if the
\* conversation belongs to the connection's tenant, and an event emitted to
\* a conversation room reaches only connections of the conversation's tenant.
C4_NoCrossTenantJoin ==
    /\ \A s \in Sockets : \A r \in rooms[s] :
          r.kind = "conversation" =>
            /\ r.conv \in ConvIds
            /\ conversas[r.conv].tenant_id = sockets[s].tenantId
    /\ \A e \in emitted : \A s \in e.to :
          e.room.kind = "conversation" =>
            conversas[e.room.conv].tenant_id = sockets[s].tenantId
    /\ (last.op = "join" /\ last.joined) =>
            /\ last.conv \in ConvIds
            /\ conversas[last.conv].tenant_id = sockets[last.socket].tenantId

C4_Witness ==
    /\ last.op = "join"
    /\ ~last.joined
    /\ last.conv \in ConvIds
    /\ sockets[last.socket] # Closed
    /\ conversas[last.conv].tenant_id # sockets[last.socket].tenantId
    /\ \E t \in Sockets : ConversationRoom(last.conv) \in rooms[t]

\* C6: with a secret configured, a webhook request whose signature header is
\* neither the secret nor a valid HMAC reads and writes nothing; without a
\* configured secret no request is rejected for its signature.
C6_SignatureGate ==
    /\ secret # Null =>
          /\ \A p \in Procs :
                procs[p].op = "webhook" =>
                    validateWebhookSignature(procs[p].sig, secret) = "next"
          /\ (/\ last.op \in {"webhook", "n8nMessage"}
              /\ validateWebhookSignature(last.sig, secret) # "next")
             => last.accesses = {}
    /\ (secret = Null /\ last.op \in {"webhook", "n8nMessage"}) =>
          last.outcome \notin {"401:Missing webhook signature",
                               "401:Invalid webhook signature"}

====
